---------------------------- MODULE Spec2Model ----------------------------
(***************************************************************************)
(* Model of the ciphered-pattern-api repository.                           *)
(*                                                                         *)
(*   src/generate.py  the index builder: is_valid_word, get_pattern,       *)
(*                    process_line, process_chunk, process_single_file     *)
(*                    (one asyncio task per input file) and main           *)
(*   src/main.py      the query service: the load of patterns.txt,         *)
(*                    validate_pattern, matches_partial,                   *)
(*                    validate_partial_word, pattern and predict_partial   *)
(*                                                                         *)
(* A Python str is a sequence of characters; a character is a one-element  *)
(* TLA+ string, except "sup2", which stands for U+00B2 (SUPERSCRIPT TWO):  *)
(* a character for which str.isdigit() is True and int() raises ValueError.*)
(* A Python dict is a sequence of records [k, v] in insertion order.       *)
(***************************************************************************)
EXTENDS Integers, Sequences, FiniteSets, TLC

(***************************************************************************)
(* Characters                                                              *)
(***************************************************************************)
UpperLetters ==
    << "A", "B", "C", "D", "E", "F", "G", "H", "I", "J", "K", "L", "M",
       "N", "O", "P", "Q", "R", "S", "T", "U", "V", "W", "X", "Y", "Z" >>

LowerLetters ==
    << "a", "b", "c", "d", "e", "f", "g", "h", "i", "j", "k", "l", "m",
       "n", "o", "p", "q", "r", "s", "t", "u", "v", "w", "x", "y", "z" >>

DecimalDigits ==
    << "0", "1", "2", "3", "4", "5", "6", "7", "8", "9" >>

\* The characters of the model in code point order: the order sorted() uses.
CodePointOrder ==
    << " ", "'" >> \o DecimalDigits \o UpperLetters \o << "_" >>
        \o LowerLetters \o << "sup2" >>

Range(f) == { f[i] : i \in DOMAIN f }

IndexOf(seq, x) == CHOOSE i \in DOMAIN seq : seq[i] = x

Ord(c) == IndexOf(CodePointOrder, c)

\* str.isalpha() of one character
IsAlphaChar(c) == c \in Range(UpperLetters) \cup Range(LowerLetters)

\* str.isdigit() of one character: the decimal digits and, as Python has it,
\* the superscript digits
IsDigitChar(c) == c \in Range(DecimalDigits) \cup { "sup2" }

\* int(c) is defined for the decimal digits only; for "sup2" it raises
IntRaises(c) == c \notin Range(DecimalDigits)

IntOf(c) == IndexOf(DecimalDigits, c) - 1

\* str.isspace() of one character
IsSpaceChar(c) == c = " "

UpperChar(c) ==
    IF c \in Range(LowerLetters) THEN UpperLetters[IndexOf(LowerLetters, c)]
    ELSE c

LowerChar(c) ==
    IF c \in Range(UpperLetters) THEN LowerLetters[IndexOf(UpperLetters, c)]
    ELSE c

(***************************************************************************)
(* Strings                                                                 *)
(***************************************************************************)
\* str.upper(), str.lower()
upper(s) == [ i \in DOMAIN s |-> UpperChar(s[i]) ]

lower(s) == [ i \in DOMAIN s |-> LowerChar(s[i]) ]

\* str.isalpha(): non-empty and every character a letter
isalpha(s) == Len(s) > 0 /\ \A i \in DOMAIN s : IsAlphaChar(s[i])

\* str.isdigit(): non-empty and every character a digit
isdigit(s) == Len(s) > 0 /\ \A i \in DOMAIN s : IsDigitChar(s[i])

\* word.replace("'", "")
replace_apostrophe(s) == SelectSeq(s, LAMBDA c : c /= "'")

\* str.strip(): leading and trailing whitespace removed
strip(s) ==
    LET inked == { i \in DOMAIN s : ~IsSpaceChar(s[i]) }
    IN  IF inked = {} THEN << >>
        ELSE LET lo == CHOOSE i \in inked : \A j \in inked : i <= j
                 hi == CHOOSE i \in inked : \A j \in inked : j <= i
             IN  SubSeq(s, lo, hi)

\* str.split(): the maximal runs of non-whitespace, in order
RECURSIVE split(_)
split(s) ==
    LET t == strip(s)
    IN  IF t = << >> THEN << >>
        ELSE LET spaces == { i \in DOMAIN t : IsSpaceChar(t[i]) }
             IN  IF spaces = {} THEN << t >>
                 ELSE LET cut == CHOOSE i \in spaces : \A j \in spaces : i <= j
                      IN  << SubSeq(t, 1, cut - 1) >>
                              \o split(SubSeq(t, cut + 1, Len(t)))

\* str.split(" ", 1): cut at the first space, if there is one
split_first_space(s) ==
    LET spaces == { i \in DOMAIN s : s[i] = " " }
    IN  IF spaces = {} THEN << s >>
        ELSE LET cut == CHOOSE i \in spaces : \A j \in spaces : i <= j
             IN  << SubSeq(s, 1, cut - 1), SubSeq(s, cut + 1, Len(s)) >>

\* ' '.join(words)
RECURSIVE join(_)
join(words) ==
    IF words = << >> THEN << >>
    ELSE IF Len(words) = 1 THEN words[1]
    ELSE words[1] \o << " " >> \o join(Tail(words))

\* str(n) for a natural number n
RECURSIVE str(_)
str(n) ==
    IF n < 10 THEN << DecimalDigits[n + 1] >>
    ELSE str(n \div 10) \o << DecimalDigits[(n % 10) + 1] >>

\* a < b for Python strings: by code point, a proper prefix first
StrLess(a, b) ==
    \/ Len(a) < Len(b) /\ SubSeq(b, 1, Len(a)) = a
    \/ \E i \in DOMAIN a :
          /\ i <= Len(b)
          /\ SubSeq(a, 1, i - 1) = SubSeq(b, 1, i - 1)
          /\ Ord(a[i]) < Ord(b[i])

\* sorted(list(set(xs))): the distinct elements in ascending order
SortedSet(xs) ==
    LET S == Range(xs)
        pos(x) == 1 + Cardinality({ y \in S : StrLess(y, x) })
    IN  [ p \in 1..Cardinality(S) |-> CHOOSE x \in S : pos(x) = p ]

\* sorted(xs, key=...): Python's sort is stable; keys[i] is the key of xs[i]
StableSort(xs, keys) ==
    LET n == Len(xs)
        pos(i) == 1 + Cardinality({ j \in 1..n :
                         \/ keys[j] < keys[i]
                         \/ keys[j] = keys[i] /\ j < i })
    IN  [ p \in 1..n |-> xs[CHOOSE i \in 1..n : pos(i) = p] ]

(***************************************************************************)
(* src/generate.py: the word validator and the signature encoder           *)
(***************************************************************************)
MaxWordLen == 20

MaxConsecutive == 3

MaxOccurrence == 4

\* The loop of lines 41-48: the run length of equal adjacent letters, scanned
\* left to right; TRUE when a run exceeds max_consecutive
RECURSIVE ConsecutiveExceeds(_, _, _)
ConsecutiveExceeds(word, i, current_consecutive) ==
    IF i > Len(word) THEN FALSE
    ELSE IF word[i] = word[i - 1]
         THEN IF current_consecutive + 1 > MaxConsecutive THEN TRUE
              ELSE ConsecutiveExceeds(word, i + 1, current_consecutive + 1)
         ELSE ConsecutiveExceeds(word, i + 1, 1)

\* The loop of lines 50-54: TRUE when a letter occurs more than 4 times
OccurrenceExceeds(word) ==
    \E c \in Range(word) :
        Cardinality({ i \in DOMAIN word : word[i] = c }) > MaxOccurrence

is_valid_word(word) ==
    IF ~(1 <= Len(word) /\ Len(word) <= MaxWordLen) THEN FALSE
    ELSE IF ~isalpha(replace_apostrophe(word)) THEN FALSE
    ELSE IF Len(word) = 1 /\ upper(word) \in { << "A" >>, << "I" >> } THEN TRUE
    ELSE IF Cardinality(Range(replace_apostrophe(word))) = 1 THEN FALSE
    ELSE IF "'" \in Range(word) THEN FALSE
    ELSE IF ConsecutiveExceeds(word, 2, 1) THEN FALSE
    ELSE IF OccurrenceExceeds(word) THEN FALSE
    ELSE TRUE

\* The loop of get_pattern: seen is the sequence of distinct characters in
\* first-occurrence order, so seen[char] is the character's index in it
RECURSIVE PatternFrom(_, _)
PatternFrom(chars, seen) ==
    IF chars = << >> THEN << >>
    ELSE LET char  == Head(chars)
             seen2 == IF char \in Range(seen) THEN seen
                      ELSE Append(seen, char)
         IN  str(IndexOf(seen2, char)) \o PatternFrom(Tail(chars), seen2)

get_pattern(word) == PatternFrom(lower(word), << >>)

\* Python's None, and what `if word:` takes for it
None == << >>

process_line(line) ==
    LET tokens == split(strip(line))
    IN  IF tokens = << >> THEN None
        ELSE LET word == upper(tokens[1])
             IN  IF is_valid_word(word) THEN word ELSE None

(***************************************************************************)
(* Dictionaries: defaultdict(list), a dict in insertion order              *)
(***************************************************************************)
Keys(d) == { d[i].k : i \in DOMAIN d }

Get(d, key) ==
    IF key \in Keys(d) THEN d[CHOOSE i \in DOMAIN d : d[i].k = key].v
    ELSE << >>

\* d[key].extend(words): a missing key is inserted last
Extend(d, key, words) ==
    IF key \in Keys(d)
    THEN [ i \in DOMAIN d |->
             IF d[i].k = key THEN [ k |-> key, v |-> d[i].v \o words ]
             ELSE d[i] ]
    ELSE Append(d, [ k |-> key, v |-> words ])

\* d[key] = words: an existing key keeps its place
SetItem(d, key, words) ==
    IF key \in Keys(d)
    THEN [ i \in DOMAIN d |->
             IF d[i].k = key THEN [ k |-> key, v |-> words ] ELSE d[i] ]
    ELSE Append(d, [ k |-> key, v |-> words ])

\* process_chunk(chunk, pattern_dict)
RECURSIVE process_chunk(_, _)
process_chunk(chunk, pattern_dict) ==
    IF chunk = << >> THEN pattern_dict
    ELSE LET word == process_line(Head(chunk))
         IN  process_chunk(Tail(chunk),
                 IF word /= None
                 THEN Extend(pattern_dict, get_pattern(word), << word >>)
                 ELSE pattern_dict)

\* A variant of lines 114-115 that assigns where the code extends
RECURSIVE MergeAssign(_, _)
MergeAssign(global, file_pattern_dict) ==
    IF file_pattern_dict = << >> THEN global
    ELSE MergeAssign(SetItem(global, Head(file_pattern_dict).k,
                             Head(file_pattern_dict).v),
                     Tail(file_pattern_dict))

\* Lines 114-115: for pattern, words in file_pattern_dict.items():
\*                   global_pattern_dict[pattern].extend(words)
RECURSIVE MergeInto(_, _)
MergeInto(global, file_pattern_dict) ==
    IF file_pattern_dict = << >> THEN global
    ELSE MergeInto(Extend(global, Head(file_pattern_dict).k,
                          Head(file_pattern_dict).v),
                   Tail(file_pattern_dict))

\* A variant of lines 140-141 without set(): duplicates stay
KeepDuplicates(global) == global

\* Lines 140-141: every word list replaced by sorted(list(set(words)))
DedupSort(global) ==
    [ i \in DOMAIN global |->
        [ k |-> global[i].k, v |-> SortedSet(global[i].v) ] ]

\* Line 157: key=lambda x: len(x[1][0]) if x[1] else 0
FirstWordLen(item) == IF item.v /= << >> THEN Len(item.v[1]) ELSE 0

\* Lines 156-161: the lines written to output/patterns.txt, without their
\* line ends
Serialize(global) ==
    LET sorted_patterns ==
            StableSort(global,
                       [ i \in DOMAIN global |-> FirstWordLen(global[i]) ])
    IN  [ i \in DOMAIN sorted_patterns |->
            LET words == sorted_patterns[i].v
                sorted_words ==
                    StableSort(words, [ j \in DOMAIN words |-> Len(words[j]) ])
            IN  sorted_patterns[i].k \o << " " >> \o join(sorted_words) ]

(***************************************************************************)
(* src/main.py: the load of the index file and the query functions         *)
(***************************************************************************)
MaxPatternLen == 20

MaxPartialLen == 20

\* Line 65: line.strip().split(" ", 1), unpacked into (pattern, words); a line
\* that does not give two parts raises ValueError and the import fails
LineParts(line) == split_first_space(strip(line))

Loadable(file) == \A i \in DOMAIN file : Len(LineParts(file[i])) = 2

\* Line 65: the dict comprehension; a repeated pattern keeps its first place
\* and takes the last line's words
RECURSIVE LoadPatterns(_, _)
LoadPatterns(file, d) ==
    IF file = << >> THEN d
    ELSE LET parts == LineParts(Head(file))
         IN  LoadPatterns(Tail(file), SetItem(d, parts[1], split(parts[2])))

\* The loop of validate_pattern, lines 84-91. int(digit) raises ValueError
\* for a character that isdigit() accepts and int() does not.
RECURSIVE ValidateScan(_, _, _)
ValidateScan(pattern, i, highest_digit) ==
    IF i > Len(pattern) THEN "True"
    ELSE IF IntRaises(pattern[i]) THEN "ValueError"
    ELSE LET num == IntOf(pattern[i])
         IN  IF num > highest_digit + 1 THEN "False"
             ELSE ValidateScan(pattern, i + 1,
                      IF num > highest_digit THEN num ELSE highest_digit)

\* validate_pattern: "True", "False", or "ValueError" when it raises
validate_pattern(pattern) ==
    IF ~isdigit(pattern) \/ Len(pattern) > MaxPatternLen THEN "False"
    ELSE ValidateScan(pattern, 1, 0)

matches_partial(word, partial) ==
    IF Len(word) /= Len(partial) THEN FALSE
    ELSE \A i \in 1..Len(word) : partial[i] = "_" \/ word[i] = partial[i]

validate_partial_word(partial) ==
    IF partial = << >> \/ Len(partial) > MaxPartialLen THEN FALSE
    ELSE IF ~(\A i \in DOMAIN partial :
                 IsAlphaChar(partial[i]) \/ partial[i] = "_") THEN FALSE
    ELSE IF \A i \in DOMAIN partial : partial[i] = "_" THEN FALSE
    ELSE TRUE

\* Lines 249-253: every word of every group, in the dict's order, that
\* matches_partial accepts
RECURSIVE MatchingWords(_, _)
MatchingWords(d, partial_word) ==
    IF d = << >> THEN << >>
    ELSE SelectSeq(Head(d).v, LAMBDA word : matches_partial(word, partial_word))
             \o MatchingWords(Tail(d), partial_word)

\* A response: the HTTP status and, for 200, the "message" list. An exception
\* that is not an HTTPException leaves the handler as a 500.
Response(status, body) == [ status |-> status, body |-> body ]

\* The handler pattern(pattern), lines 176-185
pattern(patterns, query) ==
    LET valid == validate_pattern(query)
    IN  IF valid = "ValueError" THEN Response(500, << >>)
        ELSE IF valid = "False" THEN Response(400, << >>)
        ELSE IF Get(patterns, query) /= << >>
             THEN Response(200, Get(patterns, query))
             ELSE Response(404, << >>)

\* The handler predict_partial(partial_word), lines 241-263
predict_partial(patterns, query) ==
    LET partial_word == upper(query)
    IN  IF ~validate_partial_word(partial_word) THEN Response(400, << >>)
        ELSE LET matching_words ==
                     SortedSet(MatchingWords(patterns, partial_word))
             IN  IF matching_words /= << >> THEN Response(200, matching_words)
                 ELSE Response(404, << >>)

(***************************************************************************)
(* State                                                                   *)
(***************************************************************************)
VARIABLES
    \* the build (src/generate.py)
    contents,               \* file -> its lines, as the file system holds them
    INPUT_FILES,            \* the list of sources, in the order main walks it
    pc,                     \* file -> where its process_single_file task is
    nread,                  \* file -> lines its task has read
    chunk,                  \* file -> the task's current chunk
    file_pattern_dict,      \* file -> the task's own grouping
    global_pattern_dict,    \* the grouping main hands to every task
    mainpc,                 \* where main is
    output,                 \* the lines written to output/patterns.txt
    \* the query service (src/main.py)
    index_file,             \* the lines of PATTERNS_FILE
    patterns,               \* the module-level dict loaded from it
    service,                \* "import", "serving" or "crashed"
    request,                \* the last request: [op, arg]
    response,               \* and its response
    \* the validator and the encoder applied to one input
    input, accepted, signature, verdict, stage

buildVars == << contents, INPUT_FILES, pc, nread, chunk, file_pattern_dict,
                global_pattern_dict, mainpc, output >>

queryVars == << index_file, patterns, service, request, response >>

encodeVars == << input, accepted, signature, verdict, stage >>

vars == << buildVars, queryVars, encodeVars >>

(***************************************************************************)
(* Bounds and the inputs drawn within them                                 *)
(***************************************************************************)
\* Lines over both sources of one build
MaxTotalLines == 3

\* Stands for the chunk size 1000 of line 103, scaled to the sources' size
ChunkSize == 2

\* Lines of an index file
MaxIndexLines == 2

\* Characters of an enumerated query or validator input
MaxShortLen == 3

SeqsUpTo(S, n) == UNION { [1..k -> S] : k \in 0..n }

Repeat(c, n) == [ i \in 1..n |-> c ]

\* The two sources of a build
FileIds == { "A", "B" }

\* Source lines: a word, the same word in lower case with a count, a second
\* word of the same signature, a word of another signature, a blank line
SourceLines ==
    { << "C", "A", "T" >>,
      << "c", "a", "t", " ", "1", "2" >>,
      << "C", "O", "T" >>,
      << "B", "B", "C" >>,
      << " " >> }

\* Index file lines: groups as the builder writes them, a group in lower
\* case, a repeated word after two spaces, a repeated signature, and a line
\* with no separator
IndexLines ==
    { << "1", "2", "3", " ", "C", "A", "T", " ", "C", "O", "T" >>,
      << "1", "2", "3", " ", "c", "a", "t" >>,
      << "1", "2", "3", " ", " ", "C", "U", "T", " ", "C", "U", "T" >>,
      << "1", "1", "2", " ", "B", "B", "C" >>,
      << "1", " ", "A" >>,
      << "1", "2", "3", "3", "4", " ", "H", "E", "L", "L", "O" >>,
      << "1", "2", "2" >> }

PatternQueryChars == { "0", "1", "2", "3", "A", "sup2" }

PatternQueries ==
    SeqsUpTo(PatternQueryChars, MaxShortLen)
        \cup { << "1", "2", "3", "3", "4" >>, << "1", "2", "4", "5" >> }
        \cup { Repeat("1", n) : n \in (MaxPatternLen - 1)..(MaxPatternLen + 1) }

PartialQueryChars == { "C", "c", "A", "T", "_", "1" }

PartialQueries ==
    SeqsUpTo(PartialQueryChars, MaxShortLen)
        \cup { << "H", "_", "L", "L", "_" >>, << "h", "_", "l", "l", "o" >> }
        \cup { Repeat("_", n) \o << "A" >> :
                   n \in (MaxPartialLen - 2)..MaxPartialLen }

\* A word of fifteen distinct letters
LongWord ==
    << "U", "N", "C", "O", "P", "Y", "R", "I", "G", "H", "T", "A", "B", "L",
       "E" >>

EncodeChars == { "A", "a", "B", "I", "'", "0", "1", "2" }

EncodeInputs ==
    SeqsUpTo(EncodeChars, MaxShortLen)
        \cup { SubSeq(LongWord, 1, n) : n \in 1..Len(LongWord) }
        \cup { SubSeq(LongWord, 1, n) \o << "S" >> \o SubSeq(LongWord, 1, n) :
                   n \in 1..10 }
        \cup { Repeat("A", n) \o << "B" >> : n \in 1..5 }
        \cup { << "B", "B", "C" >>, << "N", "A", "S", "A" >>,
               << "W", "W", "W" >>, << "1", "2", "4", "5" >>,
               << "1", "1", "2", "3" >>, << "1", "2", "2", "1" >>,
               << "2", "3", "4" >>, << "sup2" >>, << "1", "sup2" >> }
        \cup { Repeat("1", n) : n \in (MaxPatternLen - 1)..(MaxPatternLen + 1) }

(***************************************************************************)
(* Initial states                                                          *)
(***************************************************************************)
BuildIdle ==
    /\ contents = [ f \in FileIds |-> << >> ]
    /\ INPUT_FILES = << >>
    /\ pc = [ f \in FileIds |-> "off" ]
    /\ nread = [ f \in FileIds |-> 0 ]
    /\ chunk = [ f \in FileIds |-> << >> ]
    /\ file_pattern_dict = [ f \in FileIds |-> << >> ]
    /\ global_pattern_dict = << >>
    /\ mainpc = "off"
    /\ output = << >>

QueryIdle ==
    /\ index_file = << >>
    /\ patterns = << >>
    /\ service = "off"
    /\ request = [ op |-> "none", arg |-> << >> ]
    /\ response = Response(0, << >>)

EncodeIdle ==
    /\ input = << >>
    /\ accepted = FALSE
    /\ signature = << >>
    /\ verdict = "unset"
    /\ stage = "off"

\* main() is about to gather one task per source: a sequence of at most
\* MaxTotalLines lines is split over the sources A and B, listed in either
\* order
BuildInit ==
    /\ \E all \in SeqsUpTo(SourceLines, MaxTotalLines) :
       \E cut \in 0..Len(all) :
           contents = [ f \in FileIds |->
                          IF f = "A" THEN SubSeq(all, 1, cut)
                          ELSE SubSeq(all, cut + 1, Len(all)) ]
    /\ INPUT_FILES \in { << "A", "B" >>, << "B", "A" >> }
    /\ pc = [ f \in FileIds |-> "start" ]
    /\ nread = [ f \in FileIds |-> 0 ]
    /\ chunk = [ f \in FileIds |-> << >> ]
    /\ file_pattern_dict = [ f \in FileIds |-> << >> ]
    /\ global_pattern_dict = << >>
    /\ mainpc = "gather"
    /\ output = << >>

\* main.py is about to be imported with some index file in place
QueryInit ==
    /\ index_file \in SeqsUpTo(IndexLines, MaxIndexLines)
    /\ patterns = << >>
    /\ service = "import"
    /\ request = [ op |-> "none", arg |-> << >> ]
    /\ response = Response(0, << >>)

EncodeInit ==
    /\ input \in EncodeInputs
    /\ accepted = FALSE
    /\ signature = << >>
    /\ verdict = "unset"
    /\ stage = "input"

(***************************************************************************)
(* The build: process_single_file, one asyncio task per source, and main.  *)
(* A task runs without interruption from one await to the next.            *)
(***************************************************************************)
\* asyncio.gather starts the tasks in the order of INPUT_FILES: a task takes
\* its first step once every task listed before it has taken its own
StartedBefore(t) ==
    \A i, j \in DOMAIN INPUT_FILES :
        (i < j /\ INPUT_FILES[j] = t) => pc[INPUT_FILES[i]] /= "start"

Finished(t) == pc[t] \in { "done", "skipped" }

\* Lines 88-99: the file opens; the task waits in aiofiles.open
OpenFile(t) ==
    /\ pc[t] = "start"
    /\ StartedBefore(t)
    /\ pc' = [ pc EXCEPT ![t] = "reading" ]
    /\ UNCHANGED << contents, INPUT_FILES, nread, chunk, file_pattern_dict,
                    global_pattern_dict, mainpc, output >>
    /\ UNCHANGED << queryVars, encodeVars >>

\* A variant in which the error of line 93 leaves process_single_file:
\* gather hands it to main, which ends there
OpenFailRaises(t) ==
    /\ pc[t] = "start"
    /\ StartedBefore(t)
    /\ pc' = [ pc EXCEPT ![t] = "raised" ]
    /\ mainpc' = "crashed"
    /\ UNCHANGED << contents, INPUT_FILES, nread, chunk, file_pattern_dict,
                    global_pattern_dict, output >>
    /\ UNCHANGED << queryVars, encodeVars >>

\* Lines 93, 119-122: open() raises; the handler prints a warning and the
\* task returns
OpenFail(t) ==
    /\ pc[t] = "start"
    /\ StartedBefore(t)
    /\ pc' = [ pc EXCEPT ![t] = "skipped" ]
    /\ UNCHANGED << contents, INPUT_FILES, nread, chunk, file_pattern_dict,
                    global_pattern_dict, mainpc, output >>
    /\ UNCHANGED << queryVars, encodeVars >>

\* A variant in which a full chunk is grouped straight into the shared dict
ReadLineShared(t) ==
    /\ pc[t] = "reading"
    /\ nread[t] < Len(contents[t])
    /\ LET chunk2 == Append(chunk[t], contents[t][nread[t] + 1])
       IN  /\ nread' = [ nread EXCEPT ![t] = @ + 1 ]
           /\ IF Len(chunk2) >= ChunkSize
              THEN /\ global_pattern_dict' =
                          process_chunk(chunk2, global_pattern_dict)
                   /\ chunk' = [ chunk EXCEPT ![t] = << >> ]
              ELSE /\ global_pattern_dict' = global_pattern_dict
                   /\ chunk' = [ chunk EXCEPT ![t] = chunk2 ]
    /\ UNCHANGED << contents, INPUT_FILES, pc, file_pattern_dict, mainpc,
                    output >>
    /\ UNCHANGED << queryVars, encodeVars >>

\* Lines 101-106: one line arrives; a full chunk is processed into the task's
\* own dict
ReadLine(t) ==
    /\ pc[t] = "reading"
    /\ nread[t] < Len(contents[t])
    /\ LET chunk2 == Append(chunk[t], contents[t][nread[t] + 1])
       IN  /\ nread' = [ nread EXCEPT ![t] = @ + 1 ]
           /\ IF Len(chunk2) >= ChunkSize
              THEN /\ file_pattern_dict' =
                          [ file_pattern_dict EXCEPT
                              ![t] = process_chunk(chunk2, @) ]
                   /\ chunk' = [ chunk EXCEPT ![t] = << >> ]
              ELSE /\ file_pattern_dict' = file_pattern_dict
                   /\ chunk' = [ chunk EXCEPT ![t] = chunk2 ]
    /\ UNCHANGED << contents, INPUT_FILES, pc, global_pattern_dict, mainpc,
                    output >>
    /\ UNCHANGED << queryVars, encodeVars >>

\* Lines 108-110: the file is at its end; the rest of the chunk is processed
\* and the task waits for the file to close
EndOfFile(t) ==
    /\ pc[t] = "reading"
    /\ nread[t] = Len(contents[t])
    /\ file_pattern_dict' =
           [ file_pattern_dict EXCEPT ![t] = process_chunk(chunk[t], @) ]
    /\ chunk' = [ chunk EXCEPT ![t] = << >> ]
    /\ pc' = [ pc EXCEPT ![t] = "closing" ]
    /\ UNCHANGED << contents, INPUT_FILES, nread, global_pattern_dict, mainpc,
                    output >>
    /\ UNCHANGED << queryVars, encodeVars >>

\* Lines 112-117: the task adds its dict to the shared one and returns
Merge(t) ==
    /\ pc[t] = "closing"
    /\ global_pattern_dict' =
           MergeInto(global_pattern_dict, file_pattern_dict[t])
    /\ pc' = [ pc EXCEPT ![t] = "done" ]
    /\ UNCHANGED << contents, INPUT_FILES, nread, chunk, file_pattern_dict,
                    mainpc, output >>
    /\ UNCHANGED << queryVars, encodeVars >>

\* Lines 138-146: gather returns once every task has; the word lists are
\* deduplicated and sorted
Gathered ==
    /\ mainpc = "gather"
    /\ \A t \in FileIds : Finished(t)
    /\ global_pattern_dict' = DedupSort(global_pattern_dict)
    /\ mainpc' = "sorted"
    /\ UNCHANGED << contents, INPUT_FILES, pc, nread, chunk,
                    file_pattern_dict, output >>
    /\ UNCHANGED << queryVars, encodeVars >>

\* Lines 148-150: nothing to write
NoPatterns ==
    /\ mainpc = "sorted"
    /\ Len(global_pattern_dict) = 0
    /\ mainpc' = "returned"
    /\ UNCHANGED << contents, INPUT_FILES, pc, nread, chunk,
                    file_pattern_dict, global_pattern_dict, output >>
    /\ UNCHANGED << queryVars, encodeVars >>

\* Lines 152-165: the index is written
WritePatterns ==
    /\ mainpc = "sorted"
    /\ Len(global_pattern_dict) /= 0
    /\ output' = Serialize(global_pattern_dict)
    /\ mainpc' = "written"
    /\ UNCHANGED << contents, INPUT_FILES, pc, nread, chunk,
                    file_pattern_dict, global_pattern_dict >>
    /\ UNCHANGED << queryVars, encodeVars >>

InitBuild == BuildInit /\ QueryIdle /\ EncodeIdle

NextBuild ==
    \/ \E t \in FileIds : OpenFile(t)
    \/ \E t \in FileIds : OpenFail(t)
    \/ \E t \in FileIds : ReadLine(t)
    \/ \E t \in FileIds : EndOfFile(t)
    \/ \E t \in FileIds : Merge(t)
    \/ Gathered
    \/ NoPatterns
    \/ WritePatterns

SpecBuild == InitBuild /\ [][NextBuild]_vars

(***************************************************************************)
(* The query service                                                       *)
(***************************************************************************)
\* Lines 64-65 at import: every line gives a pattern and its words
LoadIndex ==
    /\ service = "import"
    /\ Loadable(index_file)
    /\ patterns' = LoadPatterns(index_file, << >>)
    /\ service' = "serving"
    /\ UNCHANGED << index_file, request, response >>
    /\ UNCHANGED << buildVars, encodeVars >>

\* Lines 64-65 at import: a line without a separator raises ValueError
LoadIndexFails ==
    /\ service = "import"
    /\ ~Loadable(index_file)
    /\ service' = "crashed"
    /\ UNCHANGED << index_file, patterns, request, response >>
    /\ UNCHANGED << buildVars, encodeVars >>

\* GET /pattern/{pattern}
Pattern(query) ==
    /\ service = "serving"
    /\ request.op = "none"
    /\ request' = [ op |-> "pattern", arg |-> query ]
    /\ response' = pattern(patterns, query)
    /\ UNCHANGED << index_file, patterns, service >>
    /\ UNCHANGED << buildVars, encodeVars >>

\* GET /predict/{partial_word}
PredictPartial(query) ==
    /\ service = "serving"
    /\ request.op = "none"
    /\ request' = [ op |-> "predict", arg |-> query ]
    /\ response' = predict_partial(patterns, query)
    /\ UNCHANGED << index_file, patterns, service >>
    /\ UNCHANGED << buildVars, encodeVars >>

\* The response is sent; the service waits for the next request
Respond ==
    /\ service = "serving"
    /\ request.op /= "none"
    /\ request' = [ op |-> "none", arg |-> << >> ]
    /\ response' = Response(0, << >>)
    /\ UNCHANGED << index_file, patterns, service >>
    /\ UNCHANGED << buildVars, encodeVars >>

InitQuery == BuildIdle /\ QueryInit /\ EncodeIdle

NextQuery ==
    \/ LoadIndex
    \/ LoadIndexFails
    \/ \E query \in PatternQueries : Pattern(query)
    \/ \E query \in PartialQueries : PredictPartial(query)
    \/ Respond

SpecQuery == InitQuery /\ [][NextQuery]_vars

(***************************************************************************)
(* The validator and the encoder applied to one input                      *)
(***************************************************************************)
\* is_valid_word(input) and get_pattern(input), as process_chunk pairs them
EncodeWord ==
    /\ stage = "input"
    /\ accepted' = is_valid_word(input)
    /\ signature' = get_pattern(input)
    /\ stage' = "encoded"
    /\ UNCHANGED << input, verdict >>
    /\ UNCHANGED << buildVars, queryVars >>

\* validate_pattern on the signature the encoder gave
ValidateSignature ==
    /\ stage = "encoded"
    /\ verdict' = validate_pattern(signature)
    /\ stage' = "signature validated"
    /\ UNCHANGED << input, accepted, signature >>
    /\ UNCHANGED << buildVars, queryVars >>

\* validate_pattern on the input itself
ValidateInput ==
    /\ stage = "input"
    /\ verdict' = validate_pattern(input)
    /\ stage' = "input validated"
    /\ UNCHANGED << input, accepted, signature >>
    /\ UNCHANGED << buildVars, queryVars >>

InitEncode == BuildIdle /\ QueryIdle /\ EncodeInit

NextEncode ==
    \/ EncodeWord
    \/ ValidateSignature
    \/ ValidateInput

SpecEncode == InitEncode /\ [][NextEncode]_vars

(***************************************************************************)
(* Properties of the build                                                 *)
(***************************************************************************)
\* main is past gather and the sort of lines 140-141
BuildFinished == mainpc \in { "sorted", "written", "returned" }

\* The sources whose task read its file to the end and merged
Processed == { t \in FileIds : pc[t] = "done" }

\* The words process_line returns for a set of lines
WordsOf(lines) == { process_line(l) : l \in lines } \ { None }

\* The words of every processed source
SourceWords == UNION { WordsOf(Range(contents[t])) : t \in Processed }

\* A dict as a mapping from its keys to the sets of their words
AsMapping(d) == [ key \in Keys(d) |-> Range(Get(d, key)) ]

\* How often word stands in the word lists of d, over all keys
Occurrences(d, word) ==
    Cardinality(UNION { { << e, i >> : i \in { j \in DOMAIN d[e].v :
                                                  d[e].v[j] = word } } :
                        e \in DOMAIN d })

\* The grouping of a set of words by signature, whatever source or order
\* they came in
GroupBySignature(words) ==
    [ key \in { get_pattern(w) : w \in words } |->
        { w \in words : get_pattern(w) = key } ]

\* The build of a list of sources one after the other
RECURSIVE SequentialMerge(_, _)
SequentialMerge(sources, global) ==
    IF sources = << >> THEN global
    ELSE SequentialMerge(Tail(sources),
             MergeInto(global, process_chunk(Head(sources), << >>)))

SequentialBuild(sources) == DedupSort(SequentialMerge(sources, << >>))

\* The processed sources' contents, A before B
ProcessedInNameOrder ==
    (IF "A" \in Processed THEN << contents["A"] >> ELSE << >>)
        \o (IF "B" \in Processed THEN << contents["B"] >> ELSE << >>)

\* C5: after a build, under every interleaving of the source tasks, each word
\* of the sources stands exactly once in the index, in the word list of its
\* own signature, also when it occurs in both sources or several times in one.
C5_EachWordOnceUnderItsSignature ==
    BuildFinished =>
        /\ \A w \in SourceWords :
              /\ Occurrences(global_pattern_dict, w) = 1
              /\ w \in Range(Get(global_pattern_dict, get_pattern(w)))
        /\ \A i, j \in DOMAIN global_pattern_dict :
              global_pattern_dict[i].k = global_pattern_dict[j].k => i = j

\* A finished build in which one word came from both sources and twice from
\* one of them
C5_Witness ==
    /\ mainpc = "written"
    /\ Processed = FileIds
    /\ \E w \in WordsOf(Range(contents["A"])) \cap WordsOf(Range(contents["B"])) :
       \E t \in FileIds : \E i, j \in DOMAIN contents[t] :
           /\ i < j
           /\ process_line(contents[t][i]) = w
           /\ process_line(contents[t][j]) = w

\* C6: the final index, as a mapping from signature to set of words, is the
\* grouping of the set of all source words: it depends neither on the order
\* of the sources list, nor on how the lines are split over the sources (all
\* in one source included), nor on the interleaving of the tasks.
C6_IndexIndependentOfOrderAndPartition ==
    BuildFinished =>
        AsMapping(global_pattern_dict) = GroupBySignature(SourceWords)

\* A finished build of [B, A] in which both sources gave words of one
\* signature
C6_Witness ==
    /\ mainpc = "written"
    /\ INPUT_FILES = << "B", "A" >>
    /\ Processed = FileIds
    /\ \E a \in WordsOf(Range(contents["A"])) :
       \E b \in WordsOf(Range(contents["B"])) :
           a /= b /\ get_pattern(a) = get_pattern(b)

\* The task of source u has a step to take: it may start, it has a line or
\* the end of its file to read, or it has its grouping to merge
TaskCanStep(u) ==
    \/ pc[u] = "start" /\ StartedBefore(u)
    \/ pc[u] = "reading" /\ nread[u] <= Len(contents[u])
    \/ pc[u] = "closing"

\* C7: a source that cannot be opened is skipped: no exception leaves its
\* task, it contributes nothing, the build goes on with the other source to
\* its end, and the final index is the one built from the opened sources.
C7_UnopenableSourceSkipped ==
    /\ mainpc /= "crashed"
    /\ \A t \in FileIds : pc[t] /= "raised"
    /\ \A t \in FileIds :
          pc[t] = "skipped" => file_pattern_dict[t] = << >> /\ nread[t] = 0
    /\ \A t \in FileIds : \A u \in FileIds \ { t } :
          (pc[t] = "skipped" /\ ~Finished(u)) => TaskCanStep(u)
    /\ BuildFinished =>
          /\ \A t \in FileIds : Finished(t)
          /\ AsMapping(global_pattern_dict)
                 = AsMapping(SequentialBuild(ProcessedInNameOrder))

\* A build written with one source skipped, though it held a word, and the
\* other processed
C7_Witness ==
    /\ mainpc = "written"
    /\ \E t \in FileIds :
          /\ pc[t] = "skipped"
          /\ WordsOf(Range(contents[t])) /= {}
          /\ \A u \in FileIds \ { t } : pc[u] = "done"

\* The tokens the spec's denylist names
Denylist ==
    { << "B", "B", "C" >>, << "N", "A", "S", "A" >>, << "W", "W", "W" >> }

\* C8: no denylisted token is accepted by the validator, so none is ever
\* stored in a task's grouping or in the index.
C8_DenylistedNeverStored ==
    /\ \A t \in FileIds : \A i \in DOMAIN file_pattern_dict[t] :
          Range(file_pattern_dict[t][i].v) \cap Denylist = {}
    /\ \A i \in DOMAIN global_pattern_dict :
          Range(global_pattern_dict[i].v) \cap Denylist = {}

C10_OutputSameForEveryOrder ==
    mainpc = "written" =>
        output = Serialize(SequentialBuild(ProcessedInNameOrder))

(***************************************************************************)
(* Properties of the query service                                         *)
(***************************************************************************)
\* The words on the line of index_file that gives pattern key its words
\* (the last such line), in the line's order
RECURSIVE StoredWords(_, _)
StoredWords(file, key) ==
    IF file = << >> THEN << >>
    ELSE LET parts == LineParts(file[Len(file)])
         IN  IF parts[1] = key THEN split(parts[2])
             ELSE StoredWords(SubSeq(file, 1, Len(file) - 1), key)

\* Every word of the loaded index
IndexWords == UNION { Range(patterns[i].v) : i \in DOMAIN patterns }

\* C1: an exact-match query has one of three outcomes: 400 iff
\* validate_pattern is false of it, 404 iff it is valid and no key of the
\* index, and otherwise 200 with the words of its line of the index file in
\* the line's order.
C1_ExactMatchThreeOutcomes ==
    (service = "serving" /\ request.op = "pattern") =>
        LET valid == validate_pattern(request.arg)
        IN  /\ response.status \in { 200, 400, 404 }
            /\ response.status = 400 <=> valid = "False"
            /\ response.status = 404 <=>
                   (valid = "True" /\ request.arg \notin Keys(patterns))
            /\ response.status = 200 =>
                   response.body = StoredWords(index_file, request.arg)

\* A partial pattern as the claim has it: letters and '_', 1 to 20
\* characters, at least one letter
IsPartialPattern(p) ==
    /\ 1 <= Len(p) /\ Len(p) <= MaxPartialLen
    /\ \A i \in DOMAIN p : IsAlphaChar(p[i]) \/ p[i] = "_"
    /\ \E i \in DOMAIN p : IsAlphaChar(p[i])

\* The index words of p's length that agree with p, both in upper case, at
\* every position where p has a letter
CaseInsensitiveMatches(p) ==
    { w \in IndexWords :
        /\ Len(w) = Len(p)
        /\ \A i \in DOMAIN p :
              p[i] /= "_" => upper(w)[i] = upper(p)[i] }

\* body lists exactly the words of S, each once, in ascending order
ListsSorted(body, S) ==
    /\ Range(body) = S
    /\ \A i, j \in DOMAIN body : i < j => StrLess(body[i], body[j])

\* C2: for a valid partial pattern, predict_partial returns exactly the index
\* words of its length that agree with it case-insensitively at its letters,
\* without duplicates and sorted, and 404 iff there is none.
C2_PartialMatchCaseInsensitive ==
    (service = "serving" /\ request.op = "predict"
         /\ IsPartialPattern(request.arg)) =>
        LET S == CaseInsensitiveMatches(request.arg)
        IN  /\ response.status = 404 <=> S = {}
            /\ S /= {} => /\ response.status = 200
                          /\ ListsSorted(response.body, S)

(***************************************************************************)
(* Properties of the validator and the encoder                             *)
(***************************************************************************)
\* C3: the signature of every word is_valid_word accepts is accepted by
\* validate_pattern.
C3_AcceptedWordSignatureValid ==
    (stage = "signature validated" /\ accepted) => verdict = "True"

\* A signature the encoder can produce, as the claim has it: non-empty, at
\* most 20 decimal digits, the digits used being 1..k for some k >= 1, each
\* first occurring after every smaller one
EncoderProducible(s) ==
    /\ 1 <= Len(s) /\ Len(s) <= MaxPatternLen
    /\ \A i \in DOMAIN s : s[i] \in Range(DecimalDigits)
    /\ \E k \in 1..9 : { IntOf(s[i]) : i \in DOMAIN s } = 1..k
    /\ \A i \in DOMAIN s : \A d \in 1..(IntOf(s[i]) - 1) :
          \E j \in 1..(i - 1) : IntOf(s[j]) = d

\* C4: validate_pattern accepts only signatures the encoder can produce.
C4_OnlyEncoderProducibleAccepted ==
    (stage = "input validated" /\ verdict = "True") => EncoderProducible(input)

=============================================================================
